---- MODULE Spec2Model ----
(***************************************************************************)
(* Model of the S3 bucket event handler Lambda (the index synchronisation  *)
(* handler) of pulumi-aws-ts-s3-indexed-bucket: the handler, its upsert    *)
(* and delete paths, and the DynamoDB table it maintains.                  *)
(*                                                                         *)
(* JavaScript strings are modelled as sequences of UTF-16 code units       *)
(* (integers), so that replace, decodeURIComponent, startsWith, endsWith   *)
(* and the decimal formatting of numbers are computed as the code does.    *)
(***************************************************************************)
EXTENDS Integers, Sequences, FiniteSets, TLC

(***************************************************************************)
(* Bounds of the model.                                                    *)
(***************************************************************************)
\* Number of handler invocations that may be in flight at the same time.
NumInvocations == 2
\* Largest value the clock (Date.now()) reaches.
MaxTime == 2

(***************************************************************************)
(* Characters the code names.                                              *)
(***************************************************************************)
\* '+' in /\+/g
Plus == 43
\* ' ' the replacement of '+'
Space == 32
\* '/' in key.endsWith('/')
Slash == 47
\* '%', the escape character of decodeURIComponent
Percent == 37

\* 'ObjectCreated'
ObjectCreated == <<79, 98, 106, 101, 99, 116, 67, 114, 101, 97, 116, 101, 100>>
\* 'ObjectRemove'
ObjectRemove == <<79, 98, 106, 101, 99, 116, 82, 101, 109, 111, 118, 101>>

(***************************************************************************)
(* String.prototype functions used by the handler.                         *)
(***************************************************************************)
\* s.startsWith(p)
StartsWith(s, p) ==
    /\ Len(s) >= Len(p)
    /\ SubSeq(s, 1, Len(p)) = p

\* s.endsWith(p)
EndsWith(s, p) ==
    /\ Len(s) >= Len(p)
    /\ SubSeq(s, Len(s) - Len(p) + 1, Len(s)) = p

\* s.replace(/\+/g, ' ')
ReplacePlus(s) == [j \in 1..Len(s) |-> IF s[j] = Plus THEN Space ELSE s[j]]

\* The value undefined, which a number is never equal to.
Undefined == -1

\* `${n}`: the decimal digits of a non-negative integer, 'undefined' for
\* undefined.
RECURSIVE NumberToString(_)
NumberToString(n) ==
    IF n = Undefined THEN <<117, 110, 100, 101, 102, 105, 110, 101, 100>>
    ELSE IF n < 10 THEN <<48 + n>>
    ELSE NumberToString(n \div 10) \o <<48 + (n % 10)>>

\* s is a string of decimal digits.
IsNumeric(s) == Len(s) > 0 /\ \A j \in 1..Len(s) : s[j] \in 48..57

\* The number a string of decimal digits denotes (the reading of an N
\* attribute by a consumer of the table).
RECURSIVE StringToNumber(_)
StringToNumber(s) ==
    IF Len(s) = 0 THEN 0
    ELSE 10 * StringToNumber(SubSeq(s, 1, Len(s) - 1)) + (s[Len(s)] - 48)

(***************************************************************************)
(* decodeURIComponent (ECMAScript Decode with an empty reserved set).      *)
(***************************************************************************)
IsHexDigit(c) == c \in 48..57 \/ c \in 65..70 \/ c \in 97..102

HexValue(c) ==
    IF c \in 48..57 THEN c - 48
    ELSE IF c \in 65..70 THEN c - 55
    ELSE c - 87

\* s has an escape %XY at position k.
IsEscapeAt(s, k) ==
    /\ k + 2 <= Len(s)
    /\ s[k] = Percent
    /\ IsHexDigit(s[k + 1])
    /\ IsHexDigit(s[k + 2])

\* The octet the escape at position k denotes.
OctetAt(s, k) == 16 * HexValue(s[k + 1]) + HexValue(s[k + 2])

\* Length in octets of the UTF-8 sequence a leading octet announces; 0 for an
\* octet that cannot lead a sequence.
Utf8Length(b) ==
    IF b < 128 THEN 1
    ELSE IF b \in 192..223 THEN 2
    ELSE IF b \in 224..239 THEN 3
    ELSE IF b \in 240..247 THEN 4
    ELSE 0

\* The n escapes starting at k, as octets; <<>> when one of them is missing.
RECURSIVE OctetsAt(_, _, _)
OctetsAt(s, k, n) ==
    IF n = 0 THEN <<>>
    ELSE IF ~IsEscapeAt(s, k) THEN <<>>
    ELSE LET rest == OctetsAt(s, k + 3, n - 1)
         IN IF Len(rest) = n - 1 THEN <<OctetAt(s, k)>> \o rest ELSE <<>>

\* The octets are the UTF-8 encoding of one code point.
IsValidUtf8(o) ==
    /\ Len(o) = Utf8Length(o[1])
    /\ \A j \in 2..Len(o) : o[j] \in 128..191
    /\ Len(o) = 2 => o[1] >= 194
    /\ (Len(o) = 3 /\ o[1] = 224) => o[2] >= 160
    /\ (Len(o) = 3 /\ o[1] = 237) => o[2] <= 159
    /\ (Len(o) = 4 /\ o[1] = 240) => o[2] >= 144
    /\ Len(o) = 4 => o[1] <= 244
    /\ (Len(o) = 4 /\ o[1] = 244) => o[2] <= 143

\* The code point a valid UTF-8 sequence encodes.
CodePoint(o) ==
    CASE Len(o) = 1 -> o[1]
      [] Len(o) = 2 -> (o[1] - 192) * 64 + (o[2] - 128)
      [] Len(o) = 3 -> (o[1] - 224) * 4096 + (o[2] - 128) * 64 + (o[3] - 128)
      [] OTHER -> (o[1] - 240) * 262144 + (o[2] - 128) * 4096
                  + (o[3] - 128) * 64 + (o[4] - 128)

\* The UTF-16 code units of a code point.
Utf16(v) ==
    IF v < 65536 THEN <<v>>
    ELSE <<55296 + ((v - 65536) \div 1024), 56320 + ((v - 65536) % 1024)>>

\* Decoding of s from position k on: [ok |-> TRUE, value |-> the decoded
\* string], or ok = FALSE where decodeURIComponent throws a URIError.
RECURSIVE DecodeFrom(_, _)
DecodeFrom(s, k) ==
    IF k > Len(s) THEN [ok |-> TRUE, value |-> <<>>]
    ELSE IF s[k] # Percent THEN
        LET rest == DecodeFrom(s, k + 1)
        IN [ok |-> rest.ok, value |-> <<s[k]>> \o rest.value]
    ELSE IF ~IsEscapeAt(s, k) THEN [ok |-> FALSE, value |-> <<>>]
    ELSE
        LET n == Utf8Length(OctetAt(s, k))
            o == OctetsAt(s, k, n)
        IN IF n = 0 \/ Len(o) # n \/ ~IsValidUtf8(o)
           THEN [ok |-> FALSE, value |-> <<>>]
           ELSE LET rest == DecodeFrom(s, k + 3 * n)
                IN [ok |-> rest.ok, value |-> Utf16(CodePoint(o)) \o rest.value]

decodeURIComponent(s) ==
    LET d == DecodeFrom(s, 1)
    IN IF d.ok THEN d ELSE [ok |-> FALSE, value |-> <<>>]

(***************************************************************************)
(* The notifications the handler receives.                                 *)
(***************************************************************************)
\* 'ObjectCreated:Put'
ObjectCreatedPut == ObjectCreated \o <<58, 80, 117, 116>>
\* 'ObjectRemoved:Delete'
ObjectRemovedDelete == ObjectRemove \o <<100, 58, 68, 101, 108, 101, 116, 101>>
\* 'ObjectRestore:Post', an event type of neither category
ObjectRestorePost ==
    <<79, 98, 106, 101, 99, 116, 82, 101, 115, 116, 111, 114, 101, 58, 80, 111, 115, 116>>

\* Escaped object keys: 'k', 'a+b', 'd/', '%' (a malformed escape).
KeyK == <<107>>
KeyPlus == <<97, Plus, 98>>
KeyFolder == <<100, Slash>>
KeyMalformed == <<Percent>>

\* Object sizes in bytes.
Sizes == {2048, 4096}

\* A change record of a creation (or other sized) event.
SizedRecord(eventName, key, size) ==
    [eventName |-> eventName,
     s3 |-> [bucket |-> [name |-> "bucket"],
             object |-> [key |-> key, size |-> size]]]

\* A change record of a removal event: the object descriptor has no size.
UnsizedRecord(eventName, key) ==
    [eventName |-> eventName,
     s3 |-> [bucket |-> [name |-> "bucket"],
             object |-> [key |-> key]]]

\* The change records over a set of escaped keys and a set of sizes.
ChangeRecords(keys, sizes) ==
    {SizedRecord(ObjectCreatedPut, k, s) : k \in keys, s \in sizes}
    \cup {UnsizedRecord(e, k) : e \in {ObjectRemovedDelete, ObjectRestorePost}, k \in keys}

\* Notifications holding one change record.
Notifications(records) == {[Records |-> <<r>>] : r \in records}

\* A notification without change records.
EmptyNotification == [Records |-> <<>>]

(***************************************************************************)
(* State.                                                                  *)
(***************************************************************************)
VARIABLES
    index,      \* the DynamoDB table: the set of items it holds
    now,        \* the clock read by Date.now()
    inv,        \* the invocations in flight, by slot
    last,       \* the most recently completed invocation
    present     \* keys whose most recent upsert/delete notification was an upsert

vars == <<index, now, inv, last, present>>

Invocations == 1..NumInvocations

\* process.env.DYNAMO_TABLE_ARN
tableName == "DYNAMO_TABLE_ARN"

NoResponse == [metadata |-> "none"]
NoCommand == [op |-> "none"]

\* A slot with no invocation in it.
Idle ==
    [pc |-> "idle", data |-> EmptyNotification, eventName |-> <<>>, key |-> <<>>,
     size |-> Undefined, action |-> "none", branch |-> "none",
     command |-> NoCommand, response |-> NoResponse, sent |-> <<>>,
     thrown |-> <<>>, logged |-> <<>>]

\* What is kept of an invocation that ended: its locals without the store
\* traffic in flight, and how it ended ("resolved" or "rejected").
Completed(r, result) ==
    [data |-> r.data, eventName |-> r.eventName, key |-> r.key, size |-> r.size,
     action |-> r.action, branch |-> r.branch, sent |-> r.sent,
     thrown |-> r.thrown, logged |-> r.logged, result |-> result]

Init ==
    /\ index = {}
    /\ now = 1
    /\ inv = [i \in Invocations |-> Idle]
    /\ last = Completed(Idle, "none")
    /\ present = {}

(***************************************************************************)
(* The DynamoDB table.                                                     *)
(***************************************************************************)
\* The items stored under a key.
ItemsAt(table, key) == {item \in table : item.filename = key.filename}

\* GetItemCommand: the response carries Item only when an item is stored. A
\* strongly consistent read returns the item as all the writes that have
\* landed left it; an eventually consistent one may be served from a replica
\* that has not seen the item yet.
GetItemResponses(table, input) ==
    LET current == IF ItemsAt(table, input.Key) = {}
                   THEN {[metadata |-> "ok"]}
                   ELSE {[metadata |-> "ok", Item |-> item] :
                            item \in ItemsAt(table, input.Key)}
    IN IF input.ConsistentRead THEN current ELSE current \cup {[metadata |-> "ok"]}

\* The table accepts an item whose N attributes are numbers; beyond the key
\* attribute it requires none.
IsValidItem(item) ==
    /\ "filename" \in DOMAIN item
    /\ \A a \in DOMAIN item \ {"filename"} : IsNumeric(item[a].N)

\* The put is conditional on the key having no item
\* (attribute_not_exists(filename)).
PutItem_IfAbsent(table, input) ==
    IF ItemsAt(table, [filename |-> input.Item.filename]) = {}
    THEN table \cup {input.Item}
    ELSE table

\* The put keeps the created attribute of the item already stored
\* (if_not_exists(created, ...)).
PutItem_KeepCreated(table, input) ==
    LET stored == ItemsAt(table, [filename |-> input.Item.filename])
    IN (table \ stored)
       \cup (IF stored = {} THEN {input.Item}
             ELSE {[input.Item EXCEPT !.created = item.created] : item \in stored})

\* The delete removes the items of every key that starts with the key given.
DeleteItem_Prefix(table, input) ==
    table \ {item \in table : StartsWith(item.filename.S, input.Key.filename.S)}

\* PutItemCommand: the item replaces the one stored under its key.
PutItem(table, input) ==
    (table \ ItemsAt(table, [filename |-> input.Item.filename])) \cup {input.Item}

\* DeleteItemCommand: the item stored under the key is removed, if any.
DeleteItem(table, input) == table \ ItemsAt(table, input.Key)

(***************************************************************************)
(* The object store, as its notifications tell it.                         *)
(***************************************************************************)
\* The event types of the subscribed categories s3:ObjectCreated:* and
\* s3:ObjectRemoved:*, as they appear in a change record.
IsCreationEvent(eventName) == StartsWith(eventName, ObjectCreated \o <<58>>)
IsRemovalEvent(eventName) == StartsWith(eventName, ObjectRemove \o <<100, 58>>)

\* The object key a change record names; ok = FALSE when its escaping is
\* malformed.
ObjectKey(record) == decodeURIComponent(ReplacePlus(record.s3.object.key))

\* The keys whose most recent creation or removal is a creation, once the
\* change of record is known.
Changed(keys, record) ==
    IF ~ObjectKey(record).ok THEN keys
    ELSE IF IsCreationEvent(record.eventName)
         THEN keys \cup {ObjectKey(record).value}
    ELSE IF IsRemovalEvent(record.eventName)
         THEN keys \ {ObjectKey(record).value}
    ELSE keys

\* The same, once the records from position k on are known, in their order.
RECURSIVE ChangedFrom(_, _, _)
ChangedFrom(keys, records, k) ==
    IF k > Len(records) THEN keys
    ELSE ChangedFrom(Changed(keys, records[k]), records, k + 1)

\* The keys whose most recent creation or removal notification is a creation,
\* once data is delivered.
Delivered(keys, data) == ChangedFrom(keys, data.Records, 1)

(***************************************************************************)
(* The handler.                                                            *)
(***************************************************************************)
\* The folder case is missing: every key is treated as a file.
IsFolder_Never(key) == FALSE

\* case key.endsWith('/')
IsFolder(key) == EndsWith(key, <<Slash>>)

\* The upload case tests the prefix 'Object' only.
Classify_ObjectPrefix(key, eventName) ==
    IF IsFolder(key) THEN "Skip"
    ELSE IF StartsWith(eventName, SubSeq(ObjectCreated, 1, 6)) THEN "Upsert"
    ELSE IF StartsWith(eventName, ObjectRemove) THEN "Delete"
    ELSE "Unsupported"

\* The folder case comes last: the event type decides first.
Classify_FolderLast(key, eventName) ==
    IF StartsWith(eventName, ObjectCreated) THEN "Upsert"
    ELSE IF StartsWith(eventName, ObjectRemove) THEN "Delete"
    ELSE IF IsFolder(key) THEN "Skip"
    ELSE "Unsupported"

\* The delete case tests for 'ObjectRemoved:Delete' itself.
Classify_DeleteOnly(key, eventName) ==
    IF IsFolder(key) THEN "Skip"
    ELSE IF StartsWith(eventName, ObjectCreated) THEN "Upsert"
    ELSE IF eventName = ObjectRemove \o <<100, 58, 68, 101, 108, 101, 116, 101>> THEN "Delete"
    ELSE "Unsupported"

\* The delete case is missing.
Classify_NoRemoval(key, eventName) ==
    IF IsFolder(key) THEN "Skip"
    ELSE IF StartsWith(eventName, ObjectCreated) THEN "Upsert"
    ELSE "Unsupported"

\* The case of switch (true) that is taken.
Classify(key, eventName) ==
    IF IsFolder(key) THEN "Skip"
    ELSE IF StartsWith(eventName, ObjectCreated) THEN "Upsert"
    ELSE IF StartsWith(eventName, ObjectRemove) THEN "Delete"
    ELSE "Unsupported"

\* The invocation in slot i ends: the promise of handler settles.
Settle(i, r, result) ==
    /\ inv' = [inv EXCEPT ![i] = Idle]
    /\ last' = Completed(r, result)

\* The catch block rethrows.
Catch_Rethrow(i, r, err) ==
    Settle(i, [r EXCEPT !.logged = Append(r.logged, err)], "rejected")

\* catch (err) { console.error(err) }
Catch(i, r, err) ==
    Settle(i, [r EXCEPT !.logged = Append(r.logged, err)], "resolved")

\* err is thrown inside the try block of handler, in slot i.
ThrowInTry(i, r, err) ==
    Catch(i, [r EXCEPT !.thrown = Append(r.thrown, err)], err)

\* err is thrown before the try block of handler: the promise is rejected.
ThrowBeforeTry(i, r, err) ==
    Settle(i, [r EXCEPT !.thrown = Append(r.thrown, err)], "rejected")

\* The lookup is an eventually consistent read.
GetItemInput_EventuallyConsistent(filename) ==
    [TableName |-> tableName, ConsistentRead |-> FALSE,
     Key |-> [filename |-> [S |-> filename]]]

\* The input of getItem's GetItemCommand.
GetItemInput(filename) ==
    [TableName |-> tableName, ConsistentRead |-> TRUE,
     Key |-> [filename |-> [S |-> filename]]]

\* The input of handleDelete's DeleteItemCommand.
DeleteItemInput(filename) ==
    [TableName |-> tableName, Key |-> [filename |-> [S |-> filename]]]

\* The key a command addresses.
CommandKey(op, input) ==
    IF op = "PutItem" THEN input.Item.filename.S ELSE input.Key.filename.S

\* r sends a command to the table (ddb.send) and awaits the response.
Send(r, pc, op, input) ==
    [r EXCEPT !.pc = pc,
              !.command = [op |-> op, input |-> input],
              !.sent = Append(r.sent, [op |-> op, filename |-> CommandKey(op, input)])]

\* created and last_modified are each given the other's reading of the clock.
CreateItemInput_Swapped(filename, filesize, t1, t2) ==
    [TableName |-> tableName,
     Item |-> [filename |-> [S |-> filename],
               size |-> [N |-> NumberToString(filesize)],
               created |-> [N |-> NumberToString(t2)],
               last_modified |-> [N |-> NumberToString(t1)]],
     ReturnValues |-> "NONE"]

\* The input of createItem's PutItemCommand; t1 and t2 are the values of its
\* two calls of Date.now().
CreateItemInput(filename, filesize, t1, t2) ==
    [TableName |-> tableName,
     Item |-> [filename |-> [S |-> filename],
               size |-> [N |-> NumberToString(filesize)],
               created |-> [N |-> NumberToString(t1)],
               last_modified |-> [N |-> NumberToString(t2)]],
     ReturnValues |-> "NONE"]

\* updateItem writes the fields that change only, a partial patch.
UpdateItemInput_Patch(filename, filesize, data, t) ==
    [TableName |-> tableName,
     Item |-> [filename |-> [S |-> filename],
               size |-> [N |-> NumberToString(filesize)],
               last_modified |-> [N |-> NumberToString(t)]],
     ReturnValues |-> "NONE"]

\* updateItem stamps created anew, as an unconditional put does.
UpdateItemInput_CreatedNow(filename, filesize, data, t) ==
    [TableName |-> tableName,
     Item |-> [filename |-> [S |-> filename],
               size |-> [N |-> NumberToString(filesize)],
               created |-> [N |-> NumberToString(t)],
               last_modified |-> [N |-> NumberToString(t)]],
     ReturnValues |-> "NONE"]

\* The input of updateItem's PutItemCommand; t is the value of Date.now().
UpdateItemInput(filename, filesize, data, t) ==
    [TableName |-> tableName,
     Item |-> [filename |-> [S |-> filename],
               size |-> [N |-> NumberToString(filesize)],
               created |-> [N |-> data.created],
               last_modified |-> [N |-> NumberToString(t)]],
     ReturnValues |-> "NONE"]

\* handleUpload puts a new entry without looking the key up.
handleUpload_NoLookup(i, r) ==
    /\ inv' = [inv EXCEPT ![i] =
                  Send([r EXCEPT !.branch = "createItem"], "putItem", "PutItem",
                       CreateItemInput(r.key, r.size, now, now))]
    /\ UNCHANGED last

\* handleUpload, called in slot i with the locals r of handler, up to its
\* first await: it calls getItem, which sends the lookup and awaits it.
handleUpload(i, r) ==
    /\ inv' = [inv EXCEPT ![i] = Send(r, "getItem", "GetItem", GetItemInput(r.key))]
    /\ UNCHANGED last

\* handleDelete, called in slot i with the locals r of handler, up to its
\* await: it sends the delete and awaits it.
handleDelete(i, r) ==
    /\ inv' = [inv EXCEPT ![i] =
                  Send(r, "handleDelete", "DeleteItem", DeleteItemInput(r.key))]
    /\ UNCHANGED last

\* handler takes the last change record of the notification.
event_Last(data) == data.Records[Len(data.Records)]

\* const event = data.Records[0]
event(data) == data.Records[1]

\* The escapes are decoded first and '+' replaced afterwards.
DecodedKey_DecodeFirst(raw) ==
    LET d == decodeURIComponent(raw)
    IN [ok |-> d.ok, value |-> ReplacePlus(d.value)]

\* decodeURIComponent(event.s3.object.key.replace(/\+/g, ' ')) for the
\* escaped key raw; ok = FALSE when it throws.
DecodedKey(raw) == decodeURIComponent(ReplacePlus(raw))

\* handler, from its call to its first await (or to its end when it awaits
\* nothing): parsing of the notification, then the dispatch.
handler(i, data) ==
    /\ inv[i].pc = "idle"
    /\ present' = Delivered(present, data)
    /\ UNCHANGED <<index, now>>
    /\ IF Len(data.Records) = 0
       THEN \* data.Records[0] is undefined: event.eventName throws a TypeError
            /\ ThrowBeforeTry(i, [Idle EXCEPT !.data = data], "TypeError")
       ELSE LET eventName == event(data).eventName
                decoded == DecodedKey(event(data).s3.object.key)
                size == IF "size" \in DOMAIN event(data).s3.object
                        THEN event(data).s3.object.size ELSE Undefined
            IN IF ~decoded.ok
               THEN \* decodeURIComponent throws a URIError, before the try
                    /\ ThrowBeforeTry(i, [Idle EXCEPT !.data = data,
                                                      !.eventName = eventName],
                                      "URIError")
               ELSE LET key == decoded.value
                        action == Classify(key, eventName)
                        r == [Idle EXCEPT !.data = data, !.eventName = eventName,
                                          !.key = key, !.size = size,
                                          !.action = action]
                    IN CASE action = "Skip" ->
                              /\ Settle(i, r, "resolved")
                         [] action = "Upsert" -> handleUpload(i, r)
                         [] action = "Delete" -> handleDelete(i, r)
                         [] OTHER ->
                              \* throw new Error(`Unsupported bucket action ...`)
                              /\ ThrowInTry(i, r, "Unsupported bucket action")

\* The table serves the lookup of slot i.
GetItemServed(i) ==
    /\ inv[i].pc = "getItem"
    /\ \E response \in GetItemResponses(index, inv[i].command.input) :
          inv' = [inv EXCEPT ![i].pc = "handleUpload",
                             ![i].command = NoCommand,
                             ![i].response = response]
    /\ UNCHANGED <<index, now, last, present>>

\* getItem never reports a hit.
getItem_NeverExists(response) == [fileExists |-> FALSE, data |-> [filename |-> <<>>]]

\* getItem, after its await: the result it returns from the response.
getItem(response) ==
    LET fileExists == "Item" \in DOMAIN response
    IN [fileExists |-> fileExists,
        data |-> IF fileExists
                 THEN [filename |-> response.Item.filename.S,
                       created |-> response.Item.created.N,
                       size |-> response.Item.size.N,
                       last_modified |-> response.Item.last_modified.N]
                 ELSE [filename |-> <<>>]]

\* handleUpload after the lookup, no entry found: createItem up to its await.
\* The clock may advance between the two calls of Date.now().
createItem(i) ==
    /\ inv[i].pc = "handleUpload"
    /\ ~getItem(inv[i].response).fileExists
    /\ \E t2 \in now..MaxTime :
          /\ t2 <= now + 1
          /\ now' = t2
          /\ inv' = [inv EXCEPT ![i] =
                        Send([inv[i] EXCEPT !.branch = "createItem",
                                            !.response = NoResponse],
                             "putItem", "PutItem",
                             CreateItemInput(inv[i].key, inv[i].size, now, t2))]
    /\ UNCHANGED <<index, last, present>>

\* handleUpload after the lookup, entry found: updateItem up to its await.
updateItem(i) ==
    /\ inv[i].pc = "handleUpload"
    /\ getItem(inv[i].response).fileExists
    /\ inv' = [inv EXCEPT ![i] =
                  Send([inv[i] EXCEPT !.branch = "updateItem",
                                      !.response = NoResponse],
                       "putItem", "PutItem",
                       UpdateItemInput(inv[i].key, inv[i].size,
                                       getItem(inv[i].response).data, now))]
    /\ UNCHANGED <<index, now, last, present>>

\* The put of updateItem carries the condition attribute_exists(filename):
\* the table rejects it when the key has no item.
PutItemServed_IfExists(i) ==
    /\ inv[i].pc = "putItem"
    /\ IsValidItem(inv[i].command.input.Item)
    /\ IF inv[i].branch = "updateItem"
          /\ ItemsAt(index, [filename |-> inv[i].command.input.Item.filename]) = {}
       THEN /\ index' = index
            /\ ThrowInTry(i, inv[i], "ConditionalCheckFailedException")
       ELSE /\ index' = PutItem(index, inv[i].command.input)
            /\ Settle(i, inv[i], "resolved")
    /\ UNCHANGED <<now, present>>

\* The table applies the put of slot i; createItem or updateItem, handleUpload
\* and handler return.
PutItemServed(i) ==
    /\ inv[i].pc = "putItem"
    /\ IsValidItem(inv[i].command.input.Item)
    /\ index' = PutItem(index, inv[i].command.input)
    /\ Settle(i, inv[i], "resolved")
    /\ UNCHANGED <<now, present>>

\* handleDelete does not await the delete: the invocation ends and the
\* command is never applied.
DeleteItemServed_NotAwaited(i) ==
    /\ inv[i].pc = "handleDelete"
    /\ Settle(i, inv[i], "resolved")
    /\ UNCHANGED <<index, now, present>>

\* The table applies the delete of slot i; handleDelete and handler return.
DeleteItemServed(i) ==
    /\ inv[i].pc = "handleDelete"
    /\ index' = DeleteItem(index, inv[i].command.input)
    /\ Settle(i, inv[i], "resolved")
    /\ UNCHANGED <<now, present>>

\* getItem catches the failure of the lookup and reports no entry.
GetItemFailed_Swallowed(i) ==
    /\ inv[i].pc = "getItem"
    /\ inv' = [inv EXCEPT ![i].pc = "handleUpload", ![i].command = NoCommand]
    /\ UNCHANGED <<index, now, last, present>>

\* ddb.send throws in slot i: the lookup failed.
GetItemFailed(i) ==
    /\ inv[i].pc = "getItem"
    /\ ThrowInTry(i, inv[i], "GetItem failed")
    /\ UNCHANGED <<index, now, present>>

\* ddb.send throws in slot i: the put failed; the table may have applied it
\* (a lost response) or not.
PutItemFailed(i, applied) ==
    /\ inv[i].pc = "putItem"
    /\ applied => IsValidItem(inv[i].command.input.Item)
    /\ index' = IF applied THEN PutItem(index, inv[i].command.input) ELSE index
    /\ ThrowInTry(i, inv[i], "PutItem failed")
    /\ UNCHANGED <<now, present>>

\* ddb.send throws in slot i: the delete failed, applied or not.
DeleteItemFailed(i, applied) ==
    /\ inv[i].pc = "handleDelete"
    /\ index' = IF applied THEN DeleteItem(index, inv[i].command.input) ELSE index
    /\ ThrowInTry(i, inv[i], "DeleteItem failed")
    /\ UNCHANGED <<now, present>>

\* Time passes.
Tick ==
    /\ now < MaxTime
    /\ now' = now + 1
    /\ UNCHANGED <<index, inv, last, present>>

(***************************************************************************)
(* Specifications.                                                         *)
(***************************************************************************)
\* No invocation is in flight.
Quiescent == \A i \in Invocations : inv[i].pc = "idle"

\* The steps of the table and of the invocations in flight.
StoreStep ==
    \/ \E i \in Invocations : GetItemServed(i)
    \/ \E i \in Invocations : createItem(i)
    \/ \E i \in Invocations : updateItem(i)
    \/ \E i \in Invocations : PutItemServed(i)
    \/ \E i \in Invocations : DeleteItemServed(i)

FailStep ==
    \/ \E i \in Invocations : GetItemFailed(i)
    \/ \E i \in Invocations, applied \in BOOLEAN : PutItemFailed(i, applied)
    \/ \E i \in Invocations, applied \in BOOLEAN : DeleteItemFailed(i, applied)

\* Concurrent invocations for one key; store calls may fail.
ConcurrentInputs ==
    Notifications({SizedRecord(ObjectCreatedPut, KeyK, 2048),
                   UnsizedRecord(ObjectRemovedDelete, KeyK)})

Next ==
    \/ \E i \in Invocations, data \in ConcurrentInputs : handler(i, data)
    \/ StoreStep
    \/ FailStep
    \/ Tick

Spec == Init /\ [][Next]_vars

\* Invocations one at a time, in notification order, served in turn by one
\* execution environment (slot 1); store calls may fail.
SeqInputs ==
    Notifications(ChangeRecords({KeyK, KeyPlus, KeyFolder, KeyMalformed}, Sizes))
    \cup {EmptyNotification}

SeqNext ==
    \/ \E data \in SeqInputs : Quiescent /\ handler(1, data)
    \/ StoreStep
    \/ FailStep
    \/ Tick

SeqSpec == Init /\ [][SeqNext]_vars

\* Invocations one at a time, in notification order; no store call fails.
SeqOkNext ==
    \/ \E data \in SeqInputs : Quiescent /\ handler(1, data)
    \/ StoreStep
    \/ Tick

SeqOkSpec == Init /\ [][SeqOkNext]_vars

\* Invocations one at a time, each given a batch of two change records; store
\* calls may fail.
BatchRecords ==
    {SizedRecord(ObjectCreatedPut, KeyK, 2048),
     SizedRecord(ObjectCreatedPut, KeyPlus, 2048),
     UnsizedRecord(ObjectRemovedDelete, KeyK),
     UnsizedRecord(ObjectRemovedDelete, KeyPlus),
     UnsizedRecord(ObjectRestorePost, KeyK)}

BatchInputs == {[Records |-> <<r1, r2>>] : r1 \in BatchRecords, r2 \in BatchRecords}

BatchNext ==
    \/ \E data \in BatchInputs : Quiescent /\ handler(1, data)
    \/ StoreStep
    \/ FailStep
    \/ Tick

BatchSpec == Init /\ [][BatchNext]_vars

\* Invocations one at a time over the event types and keys that tell the
\* cases of the dispatch apart: the two prefixes alone, a prefix cut short,
\* a prefix that is not at the start, another creation event, the empty event
\* type; a key that is '/' alone and a key with '/' inside.
EventNames ==
    {ObjectCreatedPut,
     ObjectCreated \o <<58, 67, 111, 112, 121>>,
     ObjectCreated,
     SubSeq(ObjectCreated, 1, 12),
     <<115, 51, 58>> \o ObjectCreatedPut,
     ObjectRemovedDelete,
     ObjectRemove,
     ObjectRestorePost,
     <<>>}

KeyNested == <<97, Slash, 98>>

ClassifyInputs ==
    Notifications(
        {SizedRecord(e, k, 2048) : e \in EventNames \ {ObjectRemovedDelete, ObjectRemove},
                                   k \in {KeyNested, KeyFolder, <<Slash>>}}
        \cup {UnsizedRecord(e, k) : e \in {ObjectRemovedDelete, ObjectRemove},
                                    k \in {KeyNested, KeyFolder, <<Slash>>}})

ClassifyNext ==
    \/ \E data \in ClassifyInputs : Quiescent /\ handler(1, data)
    \/ StoreStep
    \/ FailStep
    \/ Tick

ClassifySpec == Init /\ [][ClassifyNext]_vars

\* Invocations one at a time over escaped keys: 'a+b' and 'a%20b' (both
\* 'a b'), 'a%2Bb' ('a+b'), 'd%2F' ('d/'); store calls may fail.
KeyEscapedSpace == <<97, Percent, 50, 48, 98>>
KeyEscapedPlus == <<97, Percent, 50, 66, 98>>
KeyEscapedSlash == <<100, Percent, 50, 70>>

DecodeInputs ==
    Notifications(
        {SizedRecord(ObjectCreatedPut, k, 2048) :
            k \in {KeyPlus, KeyEscapedSpace, KeyEscapedPlus, KeyEscapedSlash}}
        \cup {UnsizedRecord(ObjectRemovedDelete, k) :
            k \in {KeyPlus, KeyEscapedSpace, KeyEscapedPlus, KeyEscapedSlash}})

DecodeNext ==
    \/ \E data \in DecodeInputs : Quiescent /\ handler(1, data)
    \/ StoreStep
    \/ FailStep
    \/ Tick

DecodeSpec == Init /\ [][DecodeNext]_vars

\* Invocations one at a time over the event types of the two categories the
\* bucket notification subscribes the function to, s3:ObjectCreated:* (Put,
\* Post, Copy, CompleteMultipartUpload) and s3:ObjectRemoved:* (Delete,
\* DeleteMarkerCreated), as change records name them; store calls may fail.
CreatedEventNames ==
    {ObjectCreatedPut,
     ObjectCreated \o <<58, 80, 111, 115, 116>>,
     ObjectCreated \o <<58, 67, 111, 112, 121>>,
     ObjectCreated \o <<58, 67, 111, 109, 112, 108, 101, 116, 101, 77, 117, 108, 116,
                        105, 112, 97, 114, 116, 85, 112, 108, 111, 97, 100>>}

RemovedEventNames ==
    {ObjectRemovedDelete,
     ObjectRemove \o <<100, 58, 68, 101, 108, 101, 116, 101, 77, 97, 114, 107, 101, 114,
                       67, 114, 101, 97, 116, 101, 100>>}

SubscribedInputs ==
    Notifications(
        {SizedRecord(e, k, 2048) : e \in CreatedEventNames, k \in {KeyK, KeyFolder}}
        \cup {UnsizedRecord(e, k) : e \in RemovedEventNames, k \in {KeyK, KeyFolder}})

SubscribedNext ==
    \/ \E data \in SubscribedInputs : Quiescent /\ handler(1, data)
    \/ StoreStep
    \/ FailStep
    \/ Tick

SubscribedSpec == Init /\ [][SubscribedNext]_vars

\* Concurrent invocations for two keys: the notifications of 'k' are served
\* in slot 1 while those of 'kk' are served in the other slots; no store call
\* fails.
KeyKK == <<107, 107>>

FrameInputs(i) ==
    Notifications({SizedRecord(ObjectCreatedPut, IF i = 1 THEN KeyK ELSE KeyKK, 2048),
                   UnsizedRecord(ObjectRemovedDelete, IF i = 1 THEN KeyK ELSE KeyKK)})

FrameNext ==
    \/ \E i \in Invocations : \E data \in FrameInputs(i) : handler(i, data)
    \/ StoreStep
    \/ Tick

FrameSpec == Init /\ [][FrameNext]_vars

\* Concurrent invocations in which every store call that is awaited gets its
\* response or its error, and the invocation that got it runs on.
StoreResponds(i) ==
    \/ GetItemServed(i)
    \/ PutItemServed(i)
    \/ DeleteItemServed(i)
    \/ GetItemFailed(i)
    \/ \E applied \in BOOLEAN : PutItemFailed(i, applied)
    \/ \E applied \in BOOLEAN : DeleteItemFailed(i, applied)

Resumes(i) == createItem(i) \/ updateItem(i)

LiveSpec ==
    /\ Spec
    /\ \A i \in Invocations : WF_vars(StoreResponds(i)) /\ WF_vars(Resumes(i))

(***************************************************************************)
(* Vocabulary of the properties.                                           *)
(***************************************************************************)
\* The number an N attribute holds.
Num(attr) == StringToNumber(attr.N)

\* The key under which the table stores the items of filename.
KeyOfFile(filename) == [filename |-> [S |-> filename]]

\* The keys the index holds a record for.
IndexedKeys == {item.filename.S : item \in index}

\* The keys of a set that do not denote a folder.
Files(keys) == {k \in keys : ~EndsWith(k, <<Slash>>)}

\* The completed invocation c was given a change record with a decodable key.
HasKey(c) == Len(c.data.Records) > 0 /\ ObjectKey(c.data.Records[1]).ok

\* The decoded key of the notification of c.
KeyOf(c) == ObjectKey(c.data.Records[1]).value

\* The notification of c is on a folder key / on a file key.
OnFolder(c) == HasKey(c) /\ EndsWith(KeyOf(c), <<Slash>>)
OnFile(c) == HasKey(c) /\ ~EndsWith(KeyOf(c), <<Slash>>)

\* An error of the Index Store is among errs.
StoreFailure(errs) ==
    \E j \in 1..Len(errs) : errs[j] \in {"GetItem failed", "PutItem failed", "DeleteItem failed"}

\* This step ends an invocation.
Settles == last' # last \/ \E i \in Invocations : inv[i].pc # "idle" /\ inv'[i].pc = "idle"

\* This step is the put of slot i landing, acknowledged.
UpsertLands(i) == inv[i].pc = "putItem" /\ inv'[i].pc = "idle" /\ last'.thrown = <<>>

\* This step is the delete of slot i landing, acknowledged.
DeleteLands(i) == inv[i].pc = "handleDelete" /\ inv'[i].pc = "idle" /\ last'.thrown = <<>>

\* The item the put in flight in slot i carries.
ItemOf(i) == inv[i].command.input.Item

\* The size the notification of slot i carries.
EventSize(i) == inv[i].data.Records[1].s3.object.size

\* What the handler's dispatch does with a change record, were it the one
\* dispatched; "Malformed" when its key cannot be decoded.
Outcome(record) ==
    IF ObjectKey(record).ok
    THEN Classify(ObjectKey(record).value, record.eventName)
    ELSE "Malformed"

\* The entry of sent for a command op on key.
Command(op, key) == [op |-> op, filename |-> key]

\* The object keys that the escaped keys of DecodeInputs stand for:
\* 'a b', 'a b', 'a+b', 'd/'.
Unescaped(raw) ==
    CASE raw = KeyPlus -> <<97, Space, 98>>
      [] raw = KeyEscapedSpace -> <<97, Space, 98>>
      [] raw = KeyEscapedPlus -> <<97, Plus, 98>>
      [] raw = KeyEscapedSlash -> <<100, Slash>>

\* The commands of sent that are lookups / that are writes or deletes.
Reads(sent) == {j \in 1..Len(sent) : sent[j].op = "GetItem"}
Writes(sent) == {j \in 1..Len(sent) : sent[j].op \in {"PutItem", "DeleteItem"}}

(***************************************************************************)
(* Properties.                                                             *)
(***************************************************************************)
\* C1: a notification whose decoded key ends in '/' makes the handler send
\* no read, write or delete, whatever its event type, and the invocation
\* leaves the index as it was.
C1_FolderKeyNeverTouchesIndex ==
    [][ /\ \A i \in Invocations : inv'[i].pc # "idle" => ~EndsWith(inv'[i].key, <<Slash>>)
        /\ (Settles /\ OnFolder(last')) => (last'.sent = <<>> /\ index' = index) ]_vars

C1_Witness ==
    /\ OnFolder(last)
    /\ IsCreationEvent(last.eventName)
    /\ last.result = "resolved"
    /\ index # {}

\* C2: with invocations one at a time and no store failure, whenever no
\* invocation is in flight the file keys that have a record are exactly the
\* file keys whose most recent creation or removal notification was a creation.
C2_IndexMirrorsNotifications ==
    Quiescent => Files(IndexedKeys) = Files(present)

C2_Witness ==
    /\ Quiescent
    /\ OnFile(last)
    /\ IsRemovalEvent(last.eventName)
    /\ KeyOf(last) \notin IndexedKeys
    /\ Cardinality(index) = 1

\* C3: an upsert that lands on a key with an existing record of created = T0
\* leaves one record with created = T0, the size of the event, and
\* last_modified >= T0.
C3_UpdateKeepsCreated ==
    [][ \A i \in Invocations : \A old \in ItemsAt(index, KeyOfFile(inv[i].key)) :
          UpsertLands(i) =>
            \E new \in index' :
              /\ ItemsAt(index', KeyOfFile(inv[i].key)) = {new}
              /\ Num(new.created) = Num(old.created)
              /\ Num(new.size) = EventSize(i)
              /\ Num(new.last_modified) >= Num(old.created) ]_vars

C3_Witness ==
    /\ last.branch = "updateItem"
    /\ last.result = "resolved"
    /\ last.thrown = <<>>
    /\ \E item \in index :
          /\ item.filename.S = last.key
          /\ Num(item.size) = 4096
          /\ Num(item.created) < Num(item.last_modified)

\* C4: an upsert that lands on a key without a record inserts a record whose
\* created and last_modified are equal and whose size is the size of the event.
C4_InsertStampsOneTime ==
    [][ \A i \in Invocations :
          (UpsertLands(i) /\ ItemsAt(index, KeyOfFile(inv[i].key)) = {}) =>
            \E new \in index' :
              /\ ItemsAt(index', KeyOfFile(inv[i].key)) = {new}
              /\ Num(new.created) = Num(new.last_modified)
              /\ Num(new.size) = EventSize(i) ]_vars

\* C5: under any interleaving of invocations, no write to an existing record
\* changes its created.
C5_CreatedNeverChanges ==
    [][ \A old \in index : \A new \in index' :
          old.filename = new.filename => old.created = new.created ]_vars

\* C6: when the invocation of a removal event on a file key ends without a
\* store failure, the key has no record, whether it had one before or not;
\* nothing is logged, and a delete of an absent key leaves the index as it was.
C6_DeleteLeavesAbsent ==
    [][ (/\ Settles
         /\ OnFile(last')
         /\ IsRemovalEvent(last'.eventName)
         /\ ~StoreFailure(last'.thrown)) =>
            /\ KeyOf(last') \notin {item.filename.S : item \in index'}
            /\ last'.result = "resolved"
            /\ last'.logged = <<>>
            /\ (KeyOf(last') \notin IndexedKeys => index' = index) ]_vars

C6_Witness ==
    /\ OnFile(last)
    /\ IsRemovalEvent(last.eventName)
    /\ last.result = "resolved"
    /\ last.thrown = <<>>
    /\ last.sent = <<[op |-> "DeleteItem", filename |-> KeyOf(last)]>>
    /\ KeyOf(last) \notin IndexedKeys
    /\ index # {}

\* C7: an upsert of size S2 that lands after an upsert of the same key has
\* completed leaves exactly one record of the key, with size S2, the created
\* the first upsert left, and the last_modified the second upsert read.
C7_SecondUpsertUpdates ==
    [][ \A i \in Invocations :
          (/\ UpsertLands(i)
           /\ OnFile(last)
           /\ KeyOf(last) = inv[i].key
           /\ IsCreationEvent(last.eventName)
           /\ last.result = "resolved"
           /\ last.thrown = <<>>) =>
            \E old \in index : \E new \in index' :
              /\ ItemsAt(index, KeyOfFile(inv[i].key)) = {old}
              /\ ItemsAt(index', KeyOfFile(inv[i].key)) = {new}
              /\ Num(new.size) = EventSize(i)
              /\ new.created = old.created
              /\ new.last_modified = inv[i].command.input.Item.last_modified
              /\ Num(new.last_modified) >= Num(old.last_modified) ]_vars

C7_Witness ==
    /\ last.branch = "updateItem"
    /\ last.result = "resolved"
    /\ last.thrown = <<>>
    /\ last.size = 2048
    /\ \E item \in index :
          /\ item.filename.S = last.key
          /\ Num(item.size) = 2048
          /\ Num(item.created) = 1
          /\ Num(item.last_modified) = MaxTime

\* C8: no invocation given a change record ends by raising a failure to the
\* invoking transport, a malformed key encoding included.
C8_NothingPropagates ==
    Len(last.data.Records) > 0 => last.result # "rejected"

\* C9: an invocation in which a store call fails logs the error and ends
\* normally, and sends nothing after the failed call; every invocation sends
\* at most one read and at most one write or delete.
C9_StoreFailureIsLoggedNotRetried ==
    /\ StoreFailure(last.thrown) =>
          /\ last.result = "resolved"
          /\ last.logged = last.thrown
          /\ Len(last.thrown) = 1
          /\ last.thrown = <<"GetItem failed">> => Len(last.sent) = 1
    /\ Cardinality(Reads(last.sent)) <= 1
    /\ Cardinality(Writes(last.sent)) <= 1
    /\ \A i \in Invocations :
          /\ Cardinality(Reads(inv[i].sent)) <= 1
          /\ Cardinality(Writes(inv[i].sent)) <= 1

C9_Witness ==
    /\ last.thrown = <<"PutItem failed">>
    /\ Len(last.sent) = 2
    /\ last.result = "resolved"

\* C10: a notification on a file key whose event type starts with neither
\* 'ObjectCreated' nor 'ObjectRemove' sends no read, write or delete, logs
\* one error, ends normally and leaves the index as it was.
C10_UnsupportedIsLoggedOnly ==
    [][ (/\ Settles
         /\ OnFile(last')
         /\ ~StartsWith(last'.eventName, ObjectCreated)
         /\ ~StartsWith(last'.eventName, ObjectRemove)) =>
            /\ last'.sent = <<>>
            /\ Len(last'.logged) = 1
            /\ last'.result = "resolved"
            /\ index' = index ]_vars

C10_Witness ==
    /\ OnFile(last)
    /\ last.eventName = ObjectRestorePost
    /\ last.result = "resolved"
    /\ Len(last.logged) = 1
    /\ index # {}

\* C11: under any interleaving of invocations, no write that lands on an
\* existing record of a key lowers its last_modified.
C11_LastModifiedNeverDecreases ==
    [][ \A old \in index : \A new \in index' :
          old.filename = new.filename =>
            Num(new.last_modified) >= Num(old.last_modified) ]_vars

\* C12: in every reachable state, under any interleaving of upserts and
\* deletes, every record of the index has last_modified >= created.
C12_LastModifiedNotBeforeCreated ==
    \A item \in index : Num(item.last_modified) >= Num(item.created)

C12_Witness ==
    /\ last.branch = "updateItem"
    /\ last.thrown = <<>>
    /\ \E item \in index :
          /\ item.filename.S = last.key
          /\ Num(item.created) = 1
          /\ Num(item.last_modified) = MaxTime
    /\ \E i \in Invocations : inv[i].pc = "putItem" /\ inv[i].branch = "createItem"

\* C13: when the invocation given a batch of more than one change record, one
\* of them unsupported, ends without a store failure, every record of the
\* batch that is an upsert has its key in the index and every record that is
\* a delete has its key out of it.
C13_BatchRecordsAllProcessed ==
    [][ (/\ Settles
         /\ Len(last'.data.Records) > 1
         /\ \E j \in 1..Len(last'.data.Records) :
               Outcome(last'.data.Records[j]) = "Unsupported"
         /\ ~StoreFailure(last'.thrown)) =>
            \A j \in 1..Len(last'.data.Records) :
              LET record == last'.data.Records[j]
                  stored == {item.filename.S : item \in index'}
              IN /\ Outcome(record) = "Upsert" => ObjectKey(record).value \in stored
                 /\ Outcome(record) = "Delete" => ObjectKey(record).value \notin stored ]_vars

\* C14: under any interleaving of invocations for a key, the record of the
\* key is at every moment the effect of the last write or delete that landed:
\* a put that lands leaves exactly the item it carries, a delete that lands
\* leaves no record, and nothing else changes the index.
C14_LastWriteWins ==
    [][ /\ \A i \in Invocations :
              UpsertLands(i) => ItemsAt(index', KeyOfFile(inv[i].key)) = {ItemOf(i)}
        /\ \A i \in Invocations :
              DeleteLands(i) => ItemsAt(index', KeyOfFile(inv[i].key)) = {}
        /\ index' # index =>
              \E i \in Invocations :
                /\ inv'[i].pc = "idle"
                /\ \/ /\ inv[i].pc = "putItem"
                      /\ index' = (index \ ItemsAt(index, KeyOfFile(inv[i].key)))
                                      \cup {ItemOf(i)}
                   \/ /\ inv[i].pc = "handleDelete"
                      /\ index' = index \ ItemsAt(index, KeyOfFile(inv[i].key)) ]_vars

\* A removal was notified after the creation whose put landed last: the
\* record is the one of that put.
C14_Witness ==
    /\ Quiescent
    /\ present = {}
    /\ last.branch = "updateItem"
    /\ last.thrown = <<>>
    /\ \E item \in index : item.filename.S = last.key /\ Num(item.size) = last.size

\* C15: two upserts of an absent key can both be told by their lookups that
\* the key is absent and both insert; the insert that lands second replaces
\* the created the first one wrote by its own.
C15_SecondInsertReplacesCreated ==
    [][ \A i \in Invocations : \A old \in ItemsAt(index, KeyOfFile(inv[i].key)) :
          (/\ UpsertLands(i)
           /\ inv[i].branch = "createItem"
           /\ old.created # ItemOf(i).created) =>
            \A new \in ItemsAt(index', KeyOfFile(inv[i].key)) :
              /\ new.created = ItemOf(i).created
              /\ new.created # old.created ]_vars

\* The first insert has landed and the second, stamped with another created,
\* is about to.
C15_Witness ==
    \E i \in Invocations : \E item \in index :
      /\ inv[i].pc = "putItem"
      /\ inv[i].branch = "createItem"
      /\ last.branch = "createItem"
      /\ last.thrown = <<>>
      /\ last.key = inv[i].key
      /\ item.filename.S = inv[i].key
      /\ item.created # ItemOf(i).created

\* C16: for every decoded key and event type the dispatch chooses one of
\* Skip, Upsert, Delete, Unsupported: Skip when the key ends in '/', else
\* Upsert when the event type starts with 'ObjectCreated', else Delete when it
\* starts with 'ObjectRemove', else Unsupported.
C16_ClassifierPrecedence ==
    \A r \in {last} \cup {inv[i] : i \in Invocations} :
      HasKey(r) =>
        LET key == KeyOf(r)
            eventName == r.data.Records[1].eventName
            folder == EndsWith(key, <<Slash>>)
            creation == StartsWith(eventName, ObjectCreated)
            removal == StartsWith(eventName, ObjectRemove)
        IN /\ r.action \in {"Skip", "Upsert", "Delete", "Unsupported"}
           /\ folder => r.action = "Skip"
           /\ (~folder /\ creation) => r.action = "Upsert"
           /\ (~folder /\ ~creation /\ removal) => r.action = "Delete"
           /\ (~folder /\ ~creation /\ ~removal) => r.action = "Unsupported"

\* A removal on a folder key was skipped, a creation event type without its
\* colon is in flight as an upsert.
C16_Witness ==
    /\ OnFolder(last)
    /\ StartsWith(last.eventName, ObjectRemove)
    /\ last.action = "Skip"
    /\ inv[1].eventName = ObjectCreated
    /\ inv[1].action = "Upsert"
    /\ inv[1].key = KeyNested

\* C17: in every reachable state the index holds at most one record per key,
\* and every record carries the four fields filename, size, created and
\* last_modified, its filename being the file key it is stored under.
C17_OneCompleteRecordPerKey ==
    \A item \in index :
      /\ DOMAIN item = {"filename", "size", "created", "last_modified"}
      /\ ItemsAt(index, KeyOfFile(item.filename.S)) = {item}
      /\ \A other \in index : other.filename.S = item.filename.S => other = item
      /\ Files({item.filename.S}) = {item.filename.S}
      /\ IsNumeric(item.size.N)
      /\ IsNumeric(item.created.N)
      /\ IsNumeric(item.last_modified.N)

\* An update has landed while an insert of the same key, sent before it, is
\* still in flight: one record.
C17_Witness ==
    /\ Cardinality(index) = 1
    /\ last.branch = "updateItem"
    /\ last.thrown = <<>>
    /\ \E i \in Invocations : \E item \in index :
          /\ inv[i].pc = "putItem"
          /\ inv[i].branch = "createItem"
          /\ item.filename.S = inv[i].key

\* C18: the lookup of an upsert reports an entry exactly when a record of the
\* key is stored at the moment it is served, all the writes and deletes that
\* have landed taken into account, and handleUpload takes the update branch
\* exactly when the lookup reported an entry: an upsert that looks the key up
\* after an insert has landed, no delete having landed since, updates.
C18_LookupSeesLandedWrites ==
    [][ \A i \in Invocations :
          /\ (inv[i].pc = "getItem" /\ inv'[i].pc = "handleUpload") =>
                /\ ItemsAt(index, KeyOfFile(inv[i].key)) # {} =>
                      /\ "Item" \in DOMAIN inv'[i].response
                      /\ inv'[i].response.Item \in ItemsAt(index, KeyOfFile(inv[i].key))
                /\ ItemsAt(index, KeyOfFile(inv[i].key)) = {} =>
                      "Item" \notin DOMAIN inv'[i].response
                /\ (/\ last.branch = "createItem"
                    /\ last.thrown = <<>>
                    /\ last.key = inv[i].key) =>
                      "Item" \in DOMAIN inv'[i].response
          /\ (inv[i].pc = "handleUpload" /\ inv'[i].pc = "putItem") =>
                /\ "Item" \in DOMAIN inv[i].response => inv'[i].branch = "updateItem"
                /\ "Item" \notin DOMAIN inv[i].response => inv'[i].branch = "createItem" ]_vars

\* An insert has completed and the lookup of the next upsert of the key,
\* served after it, has found its record.
C18_Witness ==
    \E i \in Invocations :
      /\ inv[i].pc = "putItem"
      /\ inv[i].branch = "updateItem"
      /\ last.branch = "createItem"
      /\ last.thrown = <<>>
      /\ last.key = inv[i].key
      /\ ItemOf(i).created \in {item.created : item \in index}

\* C19: when the lookup of an upsert fails, the error leaves handleUpload (it
\* is the one error thrown, which handler logs), the lookup is the only
\* command the invocation sent, and the index is as it was when the
\* invocation began.
C19_LookupFailureWritesNothing ==
    [][ \A i \in Invocations :
          /\ inv[i].pc = "getItem" => index' = index
          /\ (/\ inv[i].pc = "getItem"
              /\ inv'[i].pc # "getItem"
              /\ inv'[i].response = NoResponse) =>
                /\ inv'[i].pc = "idle"
                /\ last'.thrown = <<"GetItem failed">>
                /\ last'.logged = <<"GetItem failed">>
                /\ last'.result = "resolved"
                /\ last'.branch = "none"
                /\ last'.sent = <<Command("GetItem", inv[i].key)>>
                /\ Writes(last'.sent) = {}
                /\ index' = index ]_vars

\* The lookup of a key that has a record has failed.
C19_Witness ==
    /\ last.thrown = <<"GetItem failed">>
    /\ last.sent = <<Command("GetItem", last.key)>>
    /\ last.result = "resolved"
    /\ last.key \in IndexedKeys
    /\ Quiescent

\* C20: an invocation that ended sent, for a creation on a file key that met
\* no failure, one lookup and then one put, both on the decoded key; for a
\* removal on a file key, one delete on the decoded key and no lookup; for a
\* folder key or an unsupported event type, nothing.
C20_StoreOperationsPerOutcome ==
    HasKey(last) =>
      LET key == KeyOf(last)
          eventName == last.data.Records[1].eventName
          folder == EndsWith(key, <<Slash>>)
          creation == StartsWith(eventName, ObjectCreated)
          removal == StartsWith(eventName, ObjectRemove)
      IN /\ (~folder /\ creation /\ last.thrown = <<>>) =>
               last.sent = <<Command("GetItem", key), Command("PutItem", key)>>
         /\ (~folder /\ ~creation /\ removal) =>
               last.sent = <<Command("DeleteItem", key)>>
         /\ (folder \/ (~creation /\ ~removal)) => last.sent = <<>>

\* A creation of 'a+b' has looked up and put 'a b'.
C20_Witness ==
    /\ HasKey(last)
    /\ last.data.Records[1].s3.object.key = KeyPlus
    /\ last.sent = <<Command("GetItem", <<97, Space, 98>>),
                     Command("PutItem", <<97, Space, 98>>)>>
    /\ last.branch = "updateItem"
    /\ last.thrown = <<>>

\* C21: the commands of an invocation given a batch of several change
\* records are those its first record calls for, on the key of the first
\* record, whatever the later records are, and the records of all other keys
\* stay as they are while it runs.
C21_FirstRecordOnly ==
    [][ \A i \in Invocations :
          (Len(inv'[i].data.Records) > 1 \/ (Settles /\ Len(last'.data.Records) > 1)) =>
            LET r == IF inv'[i].pc # "idle" THEN inv'[i] ELSE last'
                first == r.data.Records[1]
                whole == CASE Outcome(first) = "Upsert" ->
                                <<Command("GetItem", ObjectKey(first).value),
                                  Command("PutItem", ObjectKey(first).value)>>
                           [] Outcome(first) = "Delete" ->
                                <<Command("DeleteItem", ObjectKey(first).value)>>
                           [] OTHER -> <<>>
            IN /\ Len(r.sent) <= Len(whole)
               /\ r.sent = SubSeq(whole, 1, Len(r.sent))
               /\ (inv'[i].pc = "idle" /\ ~StoreFailure(r.thrown)) => r.sent = whole
               /\ {item \in index' : item.filename.S # ObjectKey(first).value}
                     = {item \in index : item.filename.S # ObjectKey(first).value} ]_vars

\* A batch of a removal of 'k' and a creation of 'a b' has ended: the delete
\* of 'k' was sent and nothing for 'a b'.
C21_Witness ==
    /\ Len(last.data.Records) > 1
    /\ last.data.Records[1] = UnsizedRecord(ObjectRemovedDelete, KeyK)
    /\ last.data.Records[2] = SizedRecord(ObjectCreatedPut, KeyPlus, 2048)
    /\ last.sent = <<Command("DeleteItem", KeyK)>>
    /\ last.thrown = <<>>
    /\ IndexedKeys = {}
    /\ now = MaxTime

\* C22: the folder check and every lookup, put and delete use the key with
\* each '+' replaced by a space and the escapes then decoded: '%2B' gives a
\* literal '+', a key ending in '%2F' is a folder (nothing is sent), and
\* notifications whose escaped keys decode to the same string read and write
\* the same record.
C22_DecodedKeyIsUsed ==
    /\ \A r \in {last} \cup {inv[i] : i \in Invocations} :
          Len(r.data.Records) > 0 =>
            LET raw == r.data.Records[1].s3.object.key
            IN /\ r.key = Unescaped(raw)
               /\ \A j \in 1..Len(r.sent) : r.sent[j].filename = Unescaped(raw)
               /\ raw = KeyEscapedSlash => (r.sent = <<>> /\ r.action = "Skip")
               /\ raw # KeyEscapedSlash => r.action \in {"Upsert", "Delete"}
    /\ \A i \in Invocations :
          inv[i].pc \in {"getItem", "putItem", "handleDelete"} =>
            CommandKey(inv[i].command.op, inv[i].command.input)
              = Unescaped(inv[i].data.Records[1].s3.object.key)
    /\ IndexedKeys \subseteq {<<97, Space, 98>>, <<97, Plus, 98>>}
    /\ (Len(last.data.Records) > 0 /\ last.thrown = <<>> /\ last.action = "Upsert") =>
          Unescaped(last.data.Records[1].s3.object.key) \in IndexedKeys
    /\ (Len(last.data.Records) > 0 /\ last.thrown = <<>> /\ last.action = "Delete") =>
          Unescaped(last.data.Records[1].s3.object.key) \notin IndexedKeys

\* A creation of 'a%20b' has updated the record 'a b' (which only a creation
\* of 'a+b' or 'a%20b' can have made) and the record 'a+b' of 'a%2Bb' is
\* stored beside it.
C22_Witness ==
    /\ Len(last.data.Records) > 0
    /\ last.data.Records[1].s3.object.key = KeyEscapedSpace
    /\ last.branch = "updateItem"
    /\ last.thrown = <<>>
    /\ IndexedKeys = {<<97, Space, 98>>, <<97, Plus, 98>>}
    /\ \E item \in index :
          /\ item.filename.S = <<97, Space, 98>>
          /\ Num(item.created) < Num(item.last_modified)

\* C23: every invocation given a change record ends in one of the four
\* outcomes Skip, Upsert, Delete, Unsupported, its promise resolved.
C23_EndsInOneOfFourOutcomes ==
    (Len(last.data.Records) > 0 /\ last.result # "none") =>
      /\ last.action \in {"Skip", "Upsert", "Delete", "Unsupported"}
      /\ last.result = "resolved"

\* The termination half of C23: when the store answers every call, every
\* invocation in flight ends.
Terminates ==
    \A i \in Invocations : (inv[i].pc # "idle") ~> (inv[i].pc = "idle")

\* C24: updateItem builds its put from the record its lookup returned,
\* created included, and the put is applied whatever the key holds when it
\* lands: when a delete has landed since the lookup, the put that the table
\* answers leaves a record of the key with the created of the deleted record.
C24_UpdateAfterDeleteResurrects ==
    [][ \A i \in Invocations :
          /\ (/\ inv[i].pc = "handleUpload"
              /\ inv'[i].pc = "putItem"
              /\ "Item" \in DOMAIN inv[i].response) =>
                /\ inv'[i].command.op = "PutItem"
                /\ inv'[i].command.input.Item.created = inv[i].response.Item.created
                /\ inv'[i].command.input.Item.filename = inv[i].response.Item.filename
                /\ DOMAIN inv'[i].command.input = {"TableName", "Item", "ReturnValues"}
          /\ (/\ inv[i].pc = "putItem"
              /\ inv'[i].pc = "idle"
              /\ inv[i].branch = "updateItem"
              /\ KeyOfFile(inv[i].key) \notin {[filename |-> item.filename] : item \in index}
              /\ last'.thrown # <<"PutItem failed">>) =>
                /\ {item \in index' : item.filename.S = inv[i].key} = {ItemOf(i)}
                /\ last'.thrown = <<>>
                /\ last'.result = "resolved" ]_vars

\* The delete has landed after the lookup of an upsert found the record
\* created at 1; the put of the upsert, carrying created = 1, is in flight and
\* the key has no record.
C24_Witness ==
    \E i \in Invocations :
      /\ inv[i].pc = "putItem"
      /\ inv[i].branch = "updateItem"
      /\ Num(ItemOf(i).created) = 1
      /\ now = MaxTime
      /\ inv[i].key \notin IndexedKeys
      /\ IsRemovalEvent(last.eventName)
      /\ last.key = inv[i].key
      /\ last.thrown = <<>>
      /\ last.sent = <<Command("DeleteItem", inv[i].key)>>

\* C25: under any interleaving of the invocations for a key with those for
\* another key, every command an invocation sends is keyed by its own decoded
\* key, and a step of the table on behalf of an invocation leaves the records
\* of every other key as they are.
C25_OtherKeysUnchanged ==
    [][ /\ \A i \in Invocations :
              inv'[i].pc # "idle" =>
                /\ \A j \in 1..Len(inv'[i].sent) :
                      inv'[i].sent[j].filename = ObjectKey(inv'[i].data.Records[1]).value
                /\ inv'[i].pc \in {"getItem", "putItem", "handleDelete"} =>
                      CommandKey(inv'[i].command.op, inv'[i].command.input)
                        = ObjectKey(inv'[i].data.Records[1]).value
        /\ index' # index =>
              \E i \in Invocations :
                /\ inv[i].pc \in {"putItem", "handleDelete"}
                /\ inv'[i].pc = "idle"
                /\ {item \in index' : item.filename.S # ObjectKey(inv[i].data.Records[1]).value}
                     = {item \in index : item.filename.S # ObjectKey(inv[i].data.Records[1]).value}
        /\ \A i \in Invocations :
              (inv'[i] # inv[i] /\ inv[i].pc # "idle") =>
                {item \in index' : item.filename.S # ObjectKey(inv[i].data.Records[1]).value}
                  = {item \in index : item.filename.S # ObjectKey(inv[i].data.Records[1]).value} ]_vars

\* The delete of 'k' has landed while 'kk' has a record and an upsert of 'kk'
\* is in flight.
C25_Witness ==
    /\ IsRemovalEvent(last.eventName)
    /\ last.key = KeyK
    /\ last.sent = <<Command("DeleteItem", KeyK)>>
    /\ IndexedKeys = {KeyKK}
    /\ \E i \in Invocations : inv[i].pc = "putItem" /\ inv[i].key = KeyKK
    /\ now = MaxTime

\* C26: a notification of an event type of the subscribed categories
\* ObjectCreated:* and ObjectRemoved:* is never dispatched as Unsupported: a
\* creation is an Upsert and a removal a Delete, or either a Skip on a folder
\* key, and no 'Unsupported bucket action' error is thrown or logged.
C26_SubscribedNeverUnsupported ==
    \A r \in {last} \cup {inv[i] : i \in Invocations} :
      (/\ HasKey(r)
       /\ IsCreationEvent(r.data.Records[1].eventName)
            \/ IsRemovalEvent(r.data.Records[1].eventName)) =>
        /\ r.action \in {"Skip", "Upsert", "Delete"}
        /\ IsCreationEvent(r.data.Records[1].eventName) => r.action \in {"Skip", "Upsert"}
        /\ IsRemovalEvent(r.data.Records[1].eventName) => r.action \in {"Skip", "Delete"}
        /\ \A j \in 1..Len(r.thrown) : r.thrown[j] # "Unsupported bucket action"
        /\ \A j \in 1..Len(r.logged) : r.logged[j] # "Unsupported bucket action"

\* The delete marker of 'k' (the bucket is versioned) was dispatched as a
\* Delete, which sent the delete of 'k'; the completion of a multipart
\* upload is in flight as an Upsert.
C26_Witness ==
    /\ last.eventName \in RemovedEventNames \ {ObjectRemovedDelete}
    /\ last.action = "Delete"
    /\ last.sent = <<Command("DeleteItem", KeyK)>>
    /\ last.logged = <<>>
    /\ inv[1].eventName \in CreatedEventNames \ {ObjectCreatedPut}
    /\ inv[1].action = "Upsert"
    /\ Len(inv[1].eventName) > 20

====
